---- MODULE Spec2Model ----
(***************************************************************************)
(* Submission content extraction and vision routing of the Auxa dashboard  *)
(* (src/unnamed/part_001): generateAIFeedback, extractSubmissionContent,   *)
(* the format decoders, processImageForAI, the vision budget and the       *)
(* vision decision heuristic.                                              *)
(*                                                                         *)
(* Strings are modelled by their run structure: a text is a sequence of    *)
(* runs [k, n], n characters of kind k ("w" a non-whitespace character,    *)
(* "s" a whitespace character, the two truncation markers as runs of their *)
(* own kind).  Lengths, trim, whitespace collapsing and slicing are        *)
(* computed on that structure.  Formatted blocks of the prompt are records *)
(* that name the header and carry the body.                                *)
(***************************************************************************)
EXTENDS Integers, Sequences, FiniteSets, TLC

\* ------------------------------------------------------------------ bounds
MaxAttachments == 2
MaxPages == 6
MaxDocxImages == 6
MaxWork == 6
\* text lengths given to shouldTriggerVision range over 0..MaxTextLength
MaxTextLength == 221
\* concurrent chains of calls of recognizeImageTextFromData, and calls in all
MaxCallers == 2
MaxRecognizeCalls == 4
\* extractions running side by side, and image attachments of each
MaxExtractions == 2
MaxImageFiles == 2
\* awaited steps of a submission followed to its return under fairness
MaxLiveWork == 4

\* ------------------------------------------------------- program constants
DOCUMENT_OCR_PAGE_LIMIT == 5
DOCX_OCR_IMAGE_LIMIT == 5
OCR_CHARACTER_LIMIT == 6000
VISION_MAX_ANALYSES_PER_SUBMISSION == 3
OCR_TEXT_HEAVY_THRESHOLD == 220
OCR_TEXT_MIN_THRESHOLD == 40
\* 0.12, in hundredths: edge densities are carried in hundredths
EDGE_DENSITY_VISION_THRESHOLD == 12
COLOR_DIVERSITY_THRESHOLD == 45
\* fetchFileContent: text.length > 10000
FETCH_TEXT_LIMIT == 10000
\* truncateForAI(summary, 1500)
VISION_SUMMARY_LIMIT == 1500
\* '\n\n... (content truncated)'.length and '\n... (content truncated)'.length
FETCH_MARKER_LENGTH == 25
AI_MARKER_LENGTH == 24

TEXT_FILE_EXTENSIONS ==
  { "txt", "md", "json", "py", "js", "ts", "jsx", "tsx",
    "go", "c", "cpp", "h", "hpp", "java", "cs", "php",
    "rb", "rs", "swift", "kt", "scala", "r", "sh", "bash",
    "sql", "html", "css", "scss", "xml", "yaml", "yml",
    "csv", "tex" }
IMAGE_FILE_EXTENSIONS == { "png", "jpg", "jpeg", "gif", "webp", "bmp", "tiff" }
VISION_MODEL_KEYWORDS == { "gpt-4o", "gpt-4.1", "gpt-5" }

Min(a, b) == IF a <= b THEN a ELSE b

\* ------------------------------------------------------------------- texts
Run(k, n) == [k |-> k, n |-> n]
Chars(n) == IF n = 0 THEN << >> ELSE << Run("w", n) >>
FetchMarker == << Run("fetchMarker", FETCH_MARKER_LENGTH) >>
AIMarker == << Run("aiMarker", AI_MARKER_LENGTH) >>

RECURSIVE TextLength(_)
TextLength(t) == IF t = << >> THEN 0 ELSE Head(t).n + TextLength(Tail(t))

\* String.prototype.slice(0, limit) / substring(0, limit)
RECURSIVE Slice(_, _)
Slice(t, limit) ==
  IF t = << >> \/ limit <= 0 THEN << >>
  ELSE IF Head(t).n >= limit THEN << Run(Head(t).k, limit) >>
  ELSE << Head(t) >> \o Slice(Tail(t), limit - Head(t).n)

RECURSIVE TrimStart(_)
TrimStart(t) ==
  IF t = << >> THEN << >>
  ELSE IF Head(t).k = "s" THEN TrimStart(Tail(t)) ELSE t

RECURSIVE TrimEnd(_)
TrimEnd(t) ==
  IF t = << >> THEN << >>
  ELSE IF t[Len(t)].k = "s" THEN TrimEnd(SubSeq(t, 1, Len(t) - 1)) ELSE t

\* String.prototype.trim()
Trim(t) == TrimEnd(TrimStart(t))

\* .replace(/\s+/g, ' ')
CollapseWhitespace(t) ==
  [i \in DOMAIN t |-> IF t[i].k = "s" THEN Run("s", 1) ELSE t[i]]

\* function truncateForAI(text, limit = OCR_CHARACTER_LIMIT)
truncateForAI(text, limit) ==
  IF text = << >> THEN text
  ELSE IF TextLength(text) <= limit THEN text
  ELSE Slice(text, limit) \o AIMarker

\* the text handling of fetchFileContent once response.text() resolved
fetchFileContentText(text) ==
  IF TextLength(text) > FETCH_TEXT_LIMIT
    THEN Slice(text, FETCH_TEXT_LIMIT) \o FetchMarker
    ELSE text

\* ------------------------------------------------------------- file names
\* a file name is the sequence of its '.'-separated segments
toLowerCase(s) ==
  IF s = "PNG" THEN "png" ELSE s

getFileExtension(filename) ==
  IF Len(filename) < 2 THEN "" ELSE toLowerCase(filename[Len(filename)])

\* -------------------------------------------------------- vision decision
NoMetrics == [present |-> FALSE, edgeDensity |-> 0, colorDiversity |-> 0]
Metrics(e, c) == [present |-> TRUE, edgeDensity |-> e, colorDiversity |-> c]

\* mutants of shouldTriggerVision: the thresholds compared strictly; the
\* text-heavy cutoff left out
shouldTriggerVision_Strict(textLength, metricsData, forceVision) ==
  IF forceVision THEN TRUE
  ELSE IF textLength > OCR_TEXT_HEAVY_THRESHOLD THEN FALSE
  ELSE IF ~metricsData.present THEN textLength < OCR_TEXT_MIN_THRESHOLD
  ELSE IF textLength < OCR_TEXT_MIN_THRESHOLD THEN TRUE
  ELSE \/ metricsData.edgeDensity > EDGE_DENSITY_VISION_THRESHOLD
       \/ metricsData.colorDiversity > COLOR_DIVERSITY_THRESHOLD

shouldTriggerVision_NoHeavyCutoff(textLength, metricsData, forceVision) ==
  IF forceVision THEN TRUE
  ELSE IF ~metricsData.present THEN textLength <= OCR_TEXT_MIN_THRESHOLD
  ELSE IF textLength <= OCR_TEXT_MIN_THRESHOLD THEN TRUE
  ELSE \/ metricsData.edgeDensity >= EDGE_DENSITY_VISION_THRESHOLD
       \/ metricsData.colorDiversity >= COLOR_DIVERSITY_THRESHOLD

\* function shouldTriggerVision(textLength, metricsData, forceVision)
shouldTriggerVision(textLength, metricsData, forceVision) ==
  IF forceVision THEN TRUE
  ELSE IF textLength >= OCR_TEXT_HEAVY_THRESHOLD THEN FALSE
  ELSE IF ~metricsData.present THEN textLength <= OCR_TEXT_MIN_THRESHOLD
  ELSE IF textLength <= OCR_TEXT_MIN_THRESHOLD THEN TRUE
  ELSE \/ metricsData.edgeDensity >= EDGE_DENSITY_VISION_THRESHOLD
       \/ metricsData.colorDiversity >= COLOR_DIVERSITY_THRESHOLD

\* analyzeForVision: the text length the decision is taken on
cleanTextLength(ocrText) == TextLength(Trim(CollapseWhitespace(ocrText)))

\* ------------------------------------------------------------ vision budget
\* String.prototype.includes on the (lower-cased) model names of the model
includes(lower, keyword) ==
  <<lower, keyword>> \in { <<"gpt-4o", "gpt-4o">>, <<"gpt-4o-mini", "gpt-4o">>,
                           <<"gpt-4.1", "gpt-4.1">>, <<"gpt-5", "gpt-5">> }

supportsVisionModel(modelName) ==
  IF modelName = "" THEN FALSE
  ELSE \E keyword \in VISION_MODEL_KEYWORDS : includes(modelName, keyword)

createVisionBudget(config) ==
  [ enabled |-> /\ config.platform = "openai"
                /\ config.apiKey
                /\ supportsVisionModel(config.textModel),
    used |-> 0,
    max |-> VISION_MAX_ANALYSES_PER_SUBMISSION,
    sources |-> << >> ]

\* [...new Set(sources)]: first occurrences, in order
RECURSIVE Unique(_)
Unique(s) ==
  IF s = << >> THEN << >>
  ELSE LET r == Unique(SubSeq(s, 1, Len(s) - 1))
           x == s[Len(s)]
       IN IF \E i \in DOMAIN r : r[i] = x THEN r ELSE Append(r, x)

\* ------------------------------------------------------------------ inputs
\* what worker.recognize can return as data.text ('' also when OCR failed)
SparseText == << Run("w", 105), Run("s", 12), Run("w", 105) >>
PaddedHeavyText == << Run("s", 2), Run("w", 220), Run("s", 1) >>
OCRTexts == { << >>, SparseText, PaddedHeavyText }

MetricsSamples == { NoMetrics, Metrics(11, 44), Metrics(12, 1) }

\* an image as processImageForAI meets it: what OCR reads in it, what
\* analyzeImageStructure computes, and whether its data URL carries a
\* payload after the comma ("data:image/png;base64," of an empty embedded
\* image does not, and such an image neither loads nor is recognised)
ImageInputs ==
  { [ocrText |-> t, metrics |-> m, payload |-> TRUE] :
      t \in OCRTexts, m \in MetricsSamples \ { NoMetrics } }
  \cup { [ocrText |-> << >>, metrics |-> NoMetrics, payload |-> p] : p \in BOOLEAN }

\* the arguments shouldTriggerVision is checked on: every text length up to
\* MaxTextLength, metrics absent or around the two thresholds, both flags
EdgeDensities == { 0, 11, 12, 13, 100 }
ColorDiversities == { 0, 44, 45, 46, 255 }
DecisionInputs ==
  [ textLength : 0..MaxTextLength,
    metrics : { NoMetrics } \cup { Metrics(e, c) : e \in EdgeDensities, c \in ColorDiversities },
    forceVision : BOOLEAN ]

\* the text items of a PDF page, joined with ' '
PageTexts == { << >>, << Run("s", 4) >>, Chars(250) }

\* response.text() of a text attachment
FileTexts == { << >>, Chars(6000), Chars(10001) }

\* the outcome of fetchCanvasFile: a response, ok or not, or a rejection
FetchOutcomes == { "ok", "notOk", "throws" }
\* and of the decoder that opens the fetched bytes ("corrupt": it rejects)
DecodeOutcomes == FetchOutcomes \cup { "corrupt" }
\* the outcome of the vision request once sent
VisionOutcomes == { "summary", "empty", "error" }

Attachment(f, n) == [filename |-> f, items |-> n]

\* attachments of the Canvas submission record; items is the number of pages
\* of a PDF and the number of embedded images of a DOCX
Attachments ==
  { Attachment(f, 0) : f \in { <<"notes", "txt">>, <<"fig", "PNG">>, <<"README">> } }
  \cup { Attachment(<<"paper", "pdf">>, n) : n \in 1..MaxPages }
  \cup { Attachment(<<"report", "docx">>, n) : n \in 0..MaxDocxImages }

\* the images an attachment can route through processImageForAI
ImagesOf(a) ==
  LET ext == getFileExtension(a.filename)
  IN IF ext = "pdf" THEN Min(a.items, DOCUMENT_OCR_PAGE_LIMIT)
     ELSE IF ext = "docx" THEN Min(a.items, DOCX_OCR_IMAGE_LIMIT)
     ELSE IF ext \in IMAGE_FILE_EXTENSIONS THEN 1
     ELSE 0

Max(a, b) == IF a >= b THEN a ELSE b

\* the awaited steps a list of attachments asks for: per attachment a fetch
\* and a decode or, past the first, an image
RECURSIVE TotalWork(_)
TotalWork(as) ==
  IF as = << >> THEN 0 ELSE 1 + Max(1, ImagesOf(Head(as))) + TotalWork(Tail(as))

AttachmentLists ==
  { as \in UNION { [1..n -> Attachments] : n \in 0..MaxAttachments } :
      TotalWork(as) <= MaxWork }

SubmissionBodies == { << >>, Chars(5), Chars(7000), Chars(200000) }

Submissions ==
  { [submission_type |-> "online_upload", body |-> << >>, attachments |-> as] :
      as \in AttachmentLists }
  \cup { [submission_type |-> "online_text_entry", body |-> b, attachments |-> << >>] :
      b \in SubmissionBodies }
  \cup { [submission_type |-> ty, body |-> << >>, attachments |-> << >>] :
      ty \in { "online_url", "media_recording", "online_quiz" } }

\* what getAIConfig can find in the settings
AIConfigs ==
  { [platform |-> "openai", apiKey |-> TRUE, textModel |-> "gpt-4o-mini"],
    [platform |-> "openai", apiKey |-> TRUE, textModel |-> "gpt-3.5-turbo"],
    [platform |-> "anthropic", apiKey |-> FALSE, textModel |-> "gpt-4o-mini"] }

\* -------------------------------------------------------------------- state
VARIABLES
  currentGradingContext, \* [open, submission]: open = FALSE is the null context
  aiConfig,              \* what getAIConfig returned
  pc,                    \* where generateAIFeedback / extractSubmissionContent stands
  submission,            \* const submission of extractSubmissionContent
  visionBudget,          \* const visionBudget of extractSubmissionContent
  fileSections,          \* fileSections of extractSubmissionContent
  fileIndex,             \* position of the for..of loop over submission.attachments
  decoder,               \* locals of the decoder of the current attachment
  image,                 \* arguments and locals of the current processImageForAI call
  content,               \* what extractSubmissionContent returned
  log,                   \* history: one entry per processImageForAI call
  requests,              \* history: POSTs sent to /api/llm/analyze-image
  ocr,                   \* the OCR adapter: ocrWorkerPromise and its callers
  extractions            \* extractSubmissionContent calls running side by side

vars == << currentGradingContext, aiConfig, pc, submission, visionBudget, fileSections,
           fileIndex, decoder, image, content, log, requests, ocr, extractions >>

\* the variables of one extraction
extractionVars ==
  << currentGradingContext, aiConfig, pc, submission, visionBudget, fileSections,
     fileIndex, decoder, image, content, log, requests >>

NoSubmission == [submission_type |-> "", body |-> << >>, attachments |-> << >>]
NoConfig == [platform |-> "", apiKey |-> FALSE, textModel |-> ""]
NoLabel == [kind |-> "", n |-> 0, name |-> << >>]
NoDecoder ==
  [ kind |-> "", numPages |-> 0, pageLimit |-> 0, pageNumber |-> 0,
    images |-> 0, callbacks |-> 0, processedImages |-> 0,
    sections |-> << >> ]
NoImage ==
  [ stage |-> "none", label |-> NoLabel, forceVision |-> FALSE, ocrText |-> << >>,
    pageTextLength |-> 0, rawTextLength |-> 0, textLength |-> 0, metrics |-> NoMetrics, payload |-> TRUE,
    shouldUseVision |-> FALSE, usedBefore |-> 0, visionAttempted |-> FALSE,
    visionSuccessful |-> FALSE, vision |-> "none", ocr |-> "absent", structure |-> FALSE ]
\* 'No content'
NoContentText == << Run("w", 2), Run("s", 1), Run("w", 7) >>
NoContent == [kind |-> "", body |-> << >>, sections |-> << >>, summary |-> FALSE,
              summaryUsed |-> 0, summarySources |-> << >>, summaryModel |-> ""]

\* the OCR adapter before its first use: let ocrWorkerPromise = null (0 stands
\* for null, a promise is named by its rank of creation).  The extraction
\* itself takes the result of recognizeImageTextFromData as an input and
\* leaves the adapter aside; the adapter is followed in OcrSpec.
\* (caught: the catch around worker.recognize ran in the last call)
NoCaller == [pc |-> "idle", promise |-> 0, result |-> "none", caught |-> FALSE]
NoOcr ==
  [ tesseract |-> TRUE, ocrWorkerPromise |-> 0, promises |-> << >>,
    callers |-> [c \in 1..MaxCallers |-> NoCaller], microtasks |-> << >>,
    calls |-> 0 ]

\* the calls of extractSubmissionContent that run side by side in
\* ConcurrentSpec: the budget objects created so far and, per call, its locals
\* (visionBudget is a reference into objects, 0 before the call)
NoFrame ==
  [ pc |-> "idle", aiConfig |-> NoConfig, visionBudget |-> 0, fileIndex |-> 0,
    attempts |-> 0, described |-> << >> ]
\* history of a run: the requests it sent, the sections it built and what it
\* returned
NoOutput == [requests |-> << >>, sections |-> << >>, content |-> NoContent]
NoExtractions ==
  [ objects |-> << >>, frames |-> [k \in 1..MaxExtractions |-> NoFrame],
    responses |-> << >>, outputs |-> [k \in 1..MaxExtractions |-> NoOutput] ]

Init ==
  /\ currentGradingContext \in [open : {TRUE}, submission : Submissions]
  /\ aiConfig = NoConfig
  /\ pc = "idle"
  /\ submission = NoSubmission
  /\ visionBudget = createVisionBudget(NoConfig)
  /\ fileSections = << >>
  /\ fileIndex = 0
  /\ decoder = NoDecoder
  /\ image = NoImage
  /\ content = NoContent
  /\ log = << >>
  /\ requests = 0
  /\ ocr = NoOcr
  /\ extractions = NoExtractions

\* --------------------------------------------------- extractSubmissionContent
\* what extractAttachmentContentForAI resolves to: null, or a block of a text
\* body or of sections.  History: failure, the step that made it null, and
\* fetchedText, the response.text() of a text file.
NoExtracted(failure) ==
  [present |-> FALSE, header |-> "", body |-> << >>, sections |-> << >>,
   failure |-> failure, fetchedText |-> << >>]
Extracted(header, body, sections) ==
  [present |-> TRUE, header |-> header, body |-> body, sections |-> sections,
   failure |-> "none", fetchedText |-> << >>]

Tag(t, label) == [t |-> t, label |-> label]
Label(kind, n, name) == [kind |-> kind, n |-> n, name |-> name]

CurrentFile == submission.attachments[fileIndex]

\* mutant of Assemble: the summary is written only when a source was recorded
Assemble_SummaryWhenDescribed(kind, body, sections, budget, config) ==
  LET withSummary == budget.enabled /\ budget.sources # << >>
  IN [ kind |-> kind, body |-> body, sections |-> sections,
       summary |-> withSummary,
       summaryUsed |-> IF withSummary THEN budget.used ELSE 0,
       summarySources |-> IF withSummary THEN Unique(budget.sources) ELSE << >>,
       summaryModel |-> IF withSummary THEN config.textModel ELSE "" ]

\* the trailing vision summary and the return value
Assemble(kind, body, sections, budget, config) ==
  LET withSummary == budget.enabled /\ budget.used > 0
  IN [ kind |-> kind, body |-> body, sections |-> sections,
       summary |-> withSummary,
       summaryUsed |-> IF withSummary THEN budget.used ELSE 0,
       summarySources |-> IF withSummary THEN Unique(budget.sources) ELSE << >>,
       summaryModel |-> IF withSummary THEN config.textModel ELSE "" ]

\* one file section: the three header lines and the Extracted Content line
FileSection(file, extractedContent) ==
  [ file |-> fileIndex, filename |-> file.filename,
    extracted |-> IF extractedContent.present
                    THEN "content" ELSE "(No extractable content detected)",
    header |-> extractedContent.header, body |-> extractedContent.body,
    sections |-> extractedContent.sections,
    failure |-> extractedContent.failure,
    fetchedText |-> extractedContent.fetchedText ]

\* mutant of FinishAttachment: all-or-nothing, the loop ends at the first
\* attachment without content
FinishAttachment_AbortOnFailure(extractedContent, budget) ==
  LET sections == Append(fileSections, FileSection(CurrentFile, extractedContent))
  IN /\ fileSections' = sections
     /\ decoder' = NoDecoder
     /\ IF fileIndex < Len(submission.attachments) /\ extractedContent.present
          THEN /\ fileIndex' = fileIndex + 1
               /\ pc' = "attachment"
               /\ content' = content
          ELSE /\ fileIndex' = fileIndex
               /\ pc' = "returned"
               /\ content' = Assemble("SUBMITTED FILES", << >>, sections, budget, aiConfig)

\* the rest of the loop body once extractAttachmentContentForAI resolved, the
\* next iteration or the end of the loop, and the return.  (The catch of the
\* loop body is not reached: every decoder catches what it awaits.)
FinishAttachment(extractedContent, budget) ==
  LET sections == Append(fileSections, FileSection(CurrentFile, extractedContent))
  IN /\ fileSections' = sections
     /\ decoder' = NoDecoder
     /\ IF fileIndex < Len(submission.attachments)
          THEN /\ fileIndex' = fileIndex + 1
               /\ pc' = "attachment"
               /\ content' = content
          ELSE /\ fileIndex' = fileIndex
               /\ pc' = "returned"
               /\ content' = Assemble("SUBMITTED FILES", << >>, sections, budget, aiConfig)

\* ------------------------------------------------------------------ the modal
\* (modelled until extractSubmissionContent has read the context, its first
\* statement; nothing reads the context after that)
\* mutant of closeGradingModal: closing the modal cancels the extraction
closeGradingModal_Cancels ==
  /\ currentGradingContext.open
  /\ currentGradingContext' = [open |-> FALSE, submission |-> NoSubmission]
  /\ pc' = IF pc \in { "idle", "getAIConfig" } THEN pc ELSE "idle"
  /\ UNCHANGED << aiConfig, submission, visionBudget, fileSections, fileIndex,
                  decoder, image, content, log, requests >>
  /\ UNCHANGED << ocr, extractions >>

closeGradingModal ==
  /\ currentGradingContext.open
  /\ pc \in { "idle", "getAIConfig" }
  /\ currentGradingContext' = [open |-> FALSE, submission |-> NoSubmission]
  /\ UNCHANGED << aiConfig, pc, submission, visionBudget, fileSections, fileIndex,
                  decoder, image, content, log, requests >>
  /\ UNCHANGED << ocr, extractions >>

\* the click on the button of the open modal, up to await getAIConfig()
generateAIFeedback ==
  /\ pc = "idle"
  /\ currentGradingContext.open
  /\ pc' = "getAIConfig"
  /\ UNCHANGED << currentGradingContext, aiConfig, submission, visionBudget, fileSections,
                  fileIndex, decoder, image, content, log, requests >>
  /\ UNCHANGED << ocr, extractions >>

\* mutant of textSubmissionBody: the body is cut like every other text
textSubmissionBody_Truncated(body) ==
  IF body = << >> THEN NoContentText ELSE truncateForAI(body, OCR_CHARACTER_LIMIT)

\* ${submission.body || 'No content'}
textSubmissionBody(body) ==
  IF body = << >> THEN NoContentText ELSE body

\* getAIConfig resolved: the configuration checks of generateAIFeedback, then
\* extractSubmissionContent up to its first await or its return
extractSubmissionContent ==
  /\ pc = "getAIConfig"
  /\ \E config \in AIConfigs :
       /\ aiConfig' = config
       /\ IF config.platform = "" \/ ~config.apiKey \/ config.textModel = ""
            THEN /\ pc' = "idle"
                 /\ UNCHANGED << submission, visionBudget, fileSections, fileIndex, content >>
          ELSE IF ~currentGradingContext.open
            THEN \* currentGradingContext.submission of null: TypeError
                 /\ pc' = "threw"
                 /\ UNCHANGED << submission, visionBudget, fileSections, fileIndex, content >>
          ELSE LET s == currentGradingContext.submission
                   budget == createVisionBudget(config)
               IN /\ submission' = s
                  /\ visionBudget' = budget
                  /\ fileSections' = << >>
                  /\ IF s.submission_type = "online_upload" /\ Len(s.attachments) > 0
                       THEN /\ pc' = "attachment"
                            /\ fileIndex' = 1
                            /\ content' = content
                       ELSE /\ pc' = "returned"
                            /\ fileIndex' = fileIndex
                            /\ content' =
                                 IF s.submission_type = "online_text_entry"
                                   THEN Assemble("TEXT SUBMISSION:", textSubmissionBody(s.body),
                                                 << >>, budget, config)
                                 ELSE IF s.submission_type = "online_upload"
                                   THEN Assemble("No files attached", << >>, << >>, budget, config)
                                 ELSE IF s.submission_type = "online_url"
                                   THEN Assemble("URL SUBMISSION:", << >>, << >>, budget, config)
                                 ELSE IF s.submission_type = "media_recording"
                                   THEN Assemble("MEDIA RECORDING:", << >>, << >>, budget, config)
                                 ELSE Assemble("Submission type:", << >>, << >>, budget, config)
  /\ UNCHANGED << currentGradingContext, decoder, image, log, requests >>
  /\ UNCHANGED << ocr, extractions >>

\* ------------------------------------------------------------- the decoders
\* the arguments of a processImageForAI call
NewImage(label, forceVision, pageTextLength) ==
  [NoImage EXCEPT !.stage = "called", !.label = label, !.forceVision = forceVision,
                  !.pageTextLength = pageTextLength]

\* `Note: OCR limited to first ${pageLimit} pages out of ${pdf.numPages}.`
PageLimitNote(pageLimit, numPages) ==
  [t |-> "Note: OCR limited", label |-> Label("pages", pageLimit, << >>), outOf |-> numPages]

\* mutant of Deliver: the page loop runs over every page of the PDF
Deliver_EveryPage(analysis, budget) ==
  IF decoder.kind = "image"
    THEN FinishAttachment(Extracted("analysis", << >>, << analysis >>), budget)
  ELSE IF decoder.kind = "pdf"
    THEN LET sections == Append(decoder.sections, analysis)
             note == PageLimitNote(decoder.pageLimit, decoder.numPages)
             final == IF decoder.numPages > decoder.pageLimit
                        THEN Append(sections, note) ELSE sections
         IN IF decoder.pageNumber + 1 <= decoder.numPages
              THEN /\ decoder' = [decoder EXCEPT !.sections = sections,
                                                 !.pageNumber = @ + 1]
                   /\ pc' = "pdfPage"
                   /\ UNCHANGED << fileSections, fileIndex, content >>
              ELSE FinishAttachment(Extracted("sections", << >>, final), budget)
  ELSE /\ decoder' = [decoder EXCEPT !.sections = Append(@, analysis),
                                     !.callbacks = @ + 1]
       /\ pc' = "docxImage"
       /\ UNCHANGED << fileSections, fileIndex, content >>

\* an analysis returned by processImageForAI reaches the decoder that asked for it
Deliver(analysis, budget) ==
  IF decoder.kind = "image"
    THEN FinishAttachment(Extracted("analysis", << >>, << analysis >>), budget)
  ELSE IF decoder.kind = "pdf"
    THEN LET sections == Append(decoder.sections, analysis)
             note == PageLimitNote(decoder.pageLimit, decoder.numPages)
             final == IF decoder.numPages > decoder.pageLimit
                        THEN Append(sections, note) ELSE sections
         IN IF decoder.pageNumber + 1 <= decoder.pageLimit
              THEN /\ decoder' = [decoder EXCEPT !.sections = sections,
                                                 !.pageNumber = @ + 1]
                   /\ pc' = "pdfPage"
                   /\ UNCHANGED << fileSections, fileIndex, content >>
              ELSE FinishAttachment(Extracted("sections", << >>, final), budget)
  ELSE /\ decoder' = [decoder EXCEPT !.sections = Append(@, analysis),
                                     !.callbacks = @ + 1]
       /\ pc' = "docxImage"
       /\ UNCHANGED << fileSections, fileIndex, content >>

\* extractAttachmentContentForAI on a text file, with fetchFileContent
TextAttachment ==
  /\ pc = "attachment"
  /\ getFileExtension(CurrentFile.filename) \in TEXT_FILE_EXTENSIONS
  /\ \E outcome \in FetchOutcomes, text \in FileTexts :
       LET textContent == IF outcome = "ok" THEN fetchFileContentText(text) ELSE << >>
       IN FinishAttachment(
            IF textContent # << >>
              THEN [Extracted("Text Content:",
                              truncateForAI(textContent, OCR_CHARACTER_LIMIT), << >>)
                      EXCEPT !.fetchedText = text]
              ELSE NoExtracted(IF outcome = "ok" THEN "empty" ELSE "fetch"),
            visionBudget)
  /\ UNCHANGED << currentGradingContext, aiConfig, submission, visionBudget, image, log,
                  requests >>
  /\ UNCHANGED << ocr, extractions >>

\* extractAttachmentContentForAI on a file of no supported extension
UnsupportedAttachment ==
  /\ pc = "attachment"
  /\ LET extension == getFileExtension(CurrentFile.filename)
     IN /\ extension \notin TEXT_FILE_EXTENSIONS
        /\ extension \notin IMAGE_FILE_EXTENSIONS
        /\ extension \notin { "docx", "pdf" }
  /\ FinishAttachment(NoExtracted("unsupported"), visionBudget)
  /\ UNCHANGED << currentGradingContext, aiConfig, submission, visionBudget, image, log,
                  requests >>
  /\ UNCHANGED << ocr, extractions >>

\* extractImageOCRContent up to the call of processImageForAI
extractImageOCRContent ==
  /\ pc = "attachment"
  /\ getFileExtension(CurrentFile.filename) \in IMAGE_FILE_EXTENSIONS
  /\ \E outcome \in FetchOutcomes :
       IF outcome = "ok"
         THEN /\ decoder' = [NoDecoder EXCEPT !.kind = "image"]
              /\ image' = NewImage(Label("file", 0, CurrentFile.filename), FALSE, 0)
              /\ pc' = "processImage"
              /\ UNCHANGED << fileSections, fileIndex, content >>
         ELSE /\ FinishAttachment(NoExtracted("fetch"), visionBudget)
              /\ image' = image
  /\ UNCHANGED << currentGradingContext, aiConfig, submission, visionBudget, log, requests >>
  /\ UNCHANGED << ocr, extractions >>

\* extractPdfContentForAI up to the page loop
extractPdfContentForAI ==
  /\ pc = "attachment"
  /\ getFileExtension(CurrentFile.filename) = "pdf"
  /\ \E outcome \in DecodeOutcomes :
       IF outcome = "ok"
         THEN /\ decoder' = [NoDecoder EXCEPT
                               !.kind = "pdf",
                               !.numPages = CurrentFile.items,
                               !.pageLimit = Min(CurrentFile.items, DOCUMENT_OCR_PAGE_LIMIT),
                               !.pageNumber = 1]
              /\ pc' = "pdfPage"
              /\ UNCHANGED << fileSections, fileIndex, content >>
         ELSE FinishAttachment(
                NoExtracted(IF outcome = "corrupt" THEN "decode" ELSE "fetch"), visionBudget)
  /\ UNCHANGED << currentGradingContext, aiConfig, submission, visionBudget, image, log,
                  requests >>
  /\ UNCHANGED << ocr, extractions >>

\* mutant of forceVisionForPage: every page is forced
forceVisionForPage_Always(pageText) == TRUE

\* forceVision: !pageText
forceVisionForPage(pageText) == pageText = << >>

\* one iteration of the page loop up to the call of processImageForAI
PdfPage ==
  /\ pc = "pdfPage"
  /\ \E outcome \in { "ok", "corrupt" }, items \in PageTexts :
       IF outcome = "ok"
         THEN LET pageText == Trim(CollapseWhitespace(items))
                  label == Label("PDF Page", decoder.pageNumber, << >>)
              IN /\ decoder' =
                      [decoder EXCEPT
                         !.sections = IF pageText # << >>
                                        THEN Append(@, Tag("text", label))
                                        ELSE @]
                 /\ image' = NewImage(label, forceVisionForPage(pageText), TextLength(pageText))
                 /\ pc' = "processImage"
                 /\ UNCHANGED << fileSections, fileIndex, content >>
         ELSE \* getPage, getTextContent or render rejected: catch, return null
              /\ FinishAttachment(NoExtracted("decode"), visionBudget)
              /\ image' = image
  /\ UNCHANGED << currentGradingContext, aiConfig, submission, visionBudget, log, requests >>
  /\ UNCHANGED << ocr, extractions >>

\* extractDocxContentForAI up to mammoth.convertToHtml
extractDocxContentForAI ==
  /\ pc = "attachment"
  /\ getFileExtension(CurrentFile.filename) = "docx"
  /\ \E outcome \in FetchOutcomes :
       IF outcome = "ok"
         THEN /\ decoder' = [NoDecoder EXCEPT !.kind = "docx",
                                              !.images = CurrentFile.items]
              /\ pc' = "docxImage"
              /\ UNCHANGED << fileSections, fileIndex, content >>
         ELSE FinishAttachment(NoExtracted("fetch"), visionBudget)
  /\ UNCHANGED << currentGradingContext, aiConfig, submission, visionBudget, image, log,
                  requests >>
  /\ UNCHANGED << ocr, extractions >>

\* mutant of convertImage: no limit on the embedded images
convertImage_NoLimit ==
  /\ pc = "docxImage"
  /\ decoder.callbacks < decoder.images
  /\ decoder' = [decoder EXCEPT !.processedImages = @ + 1]
  /\ image' = NewImage(Label("DOCX Embedded Image",
                             decoder.processedImages + 1, << >>), FALSE, 0)
  /\ pc' = "processImage"
  /\ UNCHANGED << currentGradingContext, aiConfig, submission, visionBudget, fileSections,
                  fileIndex, content, log, requests >>
  /\ UNCHANGED << ocr, extractions >>

\* the convertImage callback on the next embedded image, up to the call of
\* processImageForAI
convertImage ==
  /\ pc = "docxImage"
  /\ decoder.callbacks < decoder.images
  /\ IF decoder.processedImages >= DOCX_OCR_IMAGE_LIMIT
       THEN /\ decoder' = [decoder EXCEPT !.callbacks = @ + 1]
            /\ UNCHANGED << pc, image >>
       ELSE /\ decoder' = [decoder EXCEPT !.processedImages = @ + 1]
            /\ image' = NewImage(Label("DOCX Embedded Image",
                                       decoder.processedImages + 1, << >>), FALSE, 0)
            /\ pc' = "processImage"
  /\ UNCHANGED << currentGradingContext, aiConfig, submission, visionBudget, fileSections,
                  fileIndex, content, log, requests >>
  /\ UNCHANGED << ocr, extractions >>

\* mammoth.convertToHtml resolved or rejected: the rest of extractDocxContentForAI
DocxConverted ==
  /\ pc = "docxImage"
  /\ decoder.callbacks = decoder.images
  /\ \E outcome \in { "ok", "corrupt" }, hasText \in BOOLEAN :
       LET text == IF hasText
                     THEN << Tag("DOCX Text:", Label("DOCX", 0, << >>)) >>
                     ELSE << >>
           sections == text \o decoder.sections
       IN FinishAttachment(
            IF outcome = "ok" /\ sections # << >>
              THEN Extracted("sections", << >>, sections)
              ELSE NoExtracted(IF outcome = "ok" THEN "empty" ELSE "decode"),
            visionBudget)
  /\ UNCHANGED << currentGradingContext, aiConfig, submission, visionBudget, image, log,
                  requests >>
  /\ UNCHANGED << ocr, extractions >>

\* ---------------------------------------------------------- processImageForAI
\* const canUseVision
canUseVision(budget, config) ==
  budget.enabled /\ config.apiKey /\ config.platform = "openai"

\* mutants of attemptsVision: no budget check; no look at the decision; the
\* budget check off by one
attemptsVision_NoLimit(budget, config, shouldUseVision, forceVision) ==
  /\ canUseVision(budget, config)
  /\ (shouldUseVision \/ forceVision)

attemptsVision_AnyImage(budget, config, shouldUseVision, forceVision) ==
  /\ canUseVision(budget, config)
  /\ budget.used < budget.max

attemptsVision_OffByOne(budget, config, shouldUseVision, forceVision) ==
  /\ canUseVision(budget, config)
  /\ budget.used + 1 < budget.max
  /\ (shouldUseVision \/ forceVision)

\* the condition of the vision branch
attemptsVision(budget, config, shouldUseVision, forceVision) ==
  /\ canUseVision(budget, config)
  /\ budget.used < budget.max
  /\ (shouldUseVision \/ forceVision)

\* mutant of skippedVision: no placeholder when the model has no vision input
skippedVision_Silent(budget, shouldUseVision, forceVision) ==
  IF (shouldUseVision \/ forceVision) /\ budget.enabled /\ budget.used >= budget.max
    THEN "(Skipped - vision analysis limit reached for this submission)"
    ELSE "none"

\* the else-if branch: the placeholder of a vision pass that is not attempted
skippedVision(budget, shouldUseVision, forceVision) ==
  IF shouldUseVision \/ forceVision
    THEN IF ~budget.enabled THEN "(Skipped - current model does not support vision input)"
         ELSE IF budget.used >= budget.max
           THEN "(Skipped - vision analysis limit reached for this submission)"
         ELSE "none"
    ELSE "none"

\* mutant of ocrSection: the placeholder is written for every empty OCR text
ocrSection_AlwaysPlaceholder(ocrText, visionSuccessful) ==
  IF ocrText # << >> THEN "text" ELSE "(No text detected)"

\* the OCR Text section
ocrSection(ocrText, visionSuccessful) ==
  IF ocrText # << >> THEN "text"
  ELSE IF ~visionSuccessful THEN "(No text detected)"
  ELSE "absent"

\* the Structure Check section
structureSection(metrics, shouldUseVision, forceVision) ==
  metrics.present /\ (shouldUseVision \/ forceVision)

\* mutant of recordSource: the use is given back when no description came
recordSource_Refund(budget, label, successful) ==
  IF successful THEN [budget EXCEPT !.sources = Append(@, label)]
  ELSE [budget EXCEPT !.used = @ - 1]

\* mutant of recordSource: the label is recorded with the request, whatever
\* its outcome
recordSource_Always(budget, label, successful) ==
  [budget EXCEPT !.sources = Append(@, label)]

\* if (summary) { ... visionBudget.sources.push(label) }
recordSource(budget, label, successful) ==
  IF successful THEN [budget EXCEPT !.sources = Append(@, label)] ELSE budget

LogEntry(img) ==
  [ label |-> img.label, file |-> fileIndex, pageTextLength |-> img.pageTextLength,
    decision |-> img.shouldUseVision \/ img.forceVision,
    attempted |-> img.visionAttempted, successful |-> img.visionSuccessful ]

\* processImageForAI from its call to the vision request (or, without a
\* request, to its return): OCR, analyzeForVision, the budget check and charge
processImageForAI ==
  /\ pc = "processImage"
  /\ \E in \in ImageInputs :
       LET ocrText == Trim(in.ocrText)
           textLength == cleanTextLength(ocrText)
           should == shouldTriggerVision(textLength, in.metrics, image.forceVision)
           attempt == attemptsVision(visionBudget, aiConfig, should, image.forceVision)
           img == [image EXCEPT
                     !.stage = IF attempt THEN "requesting" ELSE "returned",
                     !.ocrText = truncateForAI(ocrText, OCR_CHARACTER_LIMIT),
                     !.rawTextLength = TextLength(ocrText),
                     !.textLength = textLength,
                     !.metrics = in.metrics,
                     !.payload = in.payload,
                     !.shouldUseVision = should,
                     !.usedBefore = visionBudget.used,
                     !.visionAttempted = attempt,
                     !.vision = IF attempt THEN "pending"
                                ELSE skippedVision(visionBudget, should, image.forceVision),
                     !.ocr = IF attempt THEN "absent" ELSE ocrSection(ocrText, FALSE),
                     !.structure = structureSection(in.metrics, should, image.forceVision)]
       IN /\ image' = img
          /\ log' = Append(log, LogEntry(img))
          /\ IF attempt
               THEN /\ visionBudget' = [visionBudget EXCEPT !.used = @ + 1]
                    /\ pc' = "vision"
                    /\ UNCHANGED << fileSections, fileIndex, decoder, content >>
               ELSE /\ visionBudget' = visionBudget
                    /\ Deliver(Tag("analysis", img.label), visionBudget)
  /\ UNCHANGED << currentGradingContext, aiConfig, submission, requests >>
  /\ UNCHANGED << ocr, extractions >>

\* mutant of describeImageWithVision: a failed request is not caught in
\* processImageForAI and ends the decoder of the attachment
describeImageWithVision_Propagates ==
  /\ pc = "vision"
  /\ \E outcome \in VisionOutcomes :
       LET sent == image.payload
           result == IF ~sent THEN "error" ELSE outcome
           successful == result = "summary"
           vision == IF successful THEN "summary"
                     ELSE IF result = "empty" THEN "(No description returned)"
                     ELSE "(Failed to analyse visual content)"
           budget == recordSource(visionBudget, image.label, successful)
           img == [image EXCEPT
                     !.stage = "returned",
                     !.visionSuccessful = successful,
                     !.vision = vision,
                     !.ocr = ocrSection(image.ocrText, successful)]
       IN /\ requests' = IF sent THEN requests + 1 ELSE requests
          /\ visionBudget' = budget
          /\ image' = img
          /\ log' = [log EXCEPT ![Len(log)] = LogEntry(img)]
          /\ IF result = "error"
               THEN FinishAttachment(NoExtracted("decode"), budget)
               ELSE Deliver(Tag("analysis", img.label), budget)
  /\ UNCHANGED << currentGradingContext, aiConfig, submission >>
  /\ UNCHANGED << ocr, extractions >>

\* describeImageWithVision and the rest of processImageForAI
describeImageWithVision ==
  /\ pc = "vision"
  /\ \E outcome \in VisionOutcomes :
       LET sent == image.payload
           \* no payload after the comma: 'Invalid image payload', thrown before the fetch
           result == IF ~sent THEN "error" ELSE outcome
           successful == result = "summary"
           vision == IF successful THEN "summary"
                     ELSE IF result = "empty" THEN "(No description returned)"
                     ELSE "(Failed to analyse visual content)"
           budget == recordSource(visionBudget, image.label, successful)
           img == [image EXCEPT
                     !.stage = "returned",
                     !.visionSuccessful = successful,
                     !.vision = vision,
                     !.ocr = ocrSection(image.ocrText, successful)]
       IN /\ requests' = IF sent THEN requests + 1 ELSE requests
          /\ visionBudget' = budget
          /\ image' = img
          /\ log' = [log EXCEPT ![Len(log)] = LogEntry(img)]
          /\ Deliver(Tag("analysis", img.label), budget)
  /\ UNCHANGED << currentGradingContext, aiConfig, submission >>
  /\ UNCHANGED << ocr, extractions >>

Next ==
  \/ closeGradingModal
  \/ generateAIFeedback
  \/ extractSubmissionContent
  \/ TextAttachment
  \/ UnsupportedAttachment
  \/ extractImageOCRContent
  \/ extractPdfContentForAI
  \/ PdfPage
  \/ extractDocxContentForAI
  \/ convertImage
  \/ DocxConverted
  \/ processImageForAI
  \/ describeImageWithVision

Spec == Init /\ [][Next]_vars

\* the operation extractSubmissionContent is suspended on settles (a fetch, a
\* decoder, a page, OCR and image analysis, the vision request) and the code
\* up to the next await or the return runs
AwaitSettles ==
  \/ TextAttachment
  \/ UnsupportedAttachment
  \/ extractImageOCRContent
  \/ extractPdfContentForAI
  \/ PdfPage
  \/ extractDocxContentForAI
  \/ convertImage
  \/ DocxConverted
  \/ processImageForAI
  \/ describeImageWithVision

LiveInit ==
  /\ Init
  /\ TotalWork(currentGradingContext.submission.attachments) <= MaxLiveWork

\* the extraction when every operation it awaits eventually resolves or rejects
LiveSpec == LiveInit /\ [][Next]_vars /\ WF_vars(AwaitSettles)

\* ------------------------------------------------- the decision on its own
\* analyzeForVision called on any text length, metrics and flag
DecisionInit ==
  /\ currentGradingContext = [open |-> FALSE, submission |-> NoSubmission]
  /\ aiConfig = NoConfig
  /\ pc = "analyzeForVision"
  /\ submission = NoSubmission
  /\ visionBudget = createVisionBudget(NoConfig)
  /\ fileSections = << >>
  /\ fileIndex = 0
  /\ decoder = NoDecoder
  /\ \E in \in DecisionInputs :
       image = [NoImage EXCEPT !.stage = "called", !.textLength = in.textLength,
                               !.metrics = in.metrics, !.forceVision = in.forceVision]
  /\ content = NoContent
  /\ log = << >>
  /\ requests = 0
  /\ ocr = NoOcr
  /\ extractions = NoExtractions

\* const shouldUseVision = shouldTriggerVision(textLength, metricsData, Boolean(forceVision))
analyzeForVision ==
  /\ pc = "analyzeForVision"
  /\ image' = [image EXCEPT
                 !.stage = "decided",
                 !.shouldUseVision =
                    shouldTriggerVision(image.textLength, image.metrics, image.forceVision)]
  /\ pc' = "decided"
  /\ UNCHANGED << currentGradingContext, aiConfig, submission, visionBudget, fileSections,
                  fileIndex, decoder, content, log, requests >>
  /\ UNCHANGED << ocr, extractions >>

DecisionNext == analyzeForVision

DecisionSpec == DecisionInit /\ [][DecisionNext]_vars

\* ------------------------------------------------------------ the OCR adapter
\* recognizeImageTextFromData and ensureOCRWorker under concurrent chains of
\* calls (extractions started side by side).  The page runs one job at a
\* time: a task (a call reached after an image load or a render, the worker
\* settling its initialisation, a recognition coming back) runs only when no
\* continuation is left to run, and the continuations of the awaits on a
\* settled promise run in the order in which they were registered.
NewPromise == [state |-> "pending", created |-> FALSE, waiters |-> << >>]

\* mutant of ensureOCRWorker: the promise is not memoized
ensureOCRWorker_NoMemo(o) ==
  IF ~o.tesseract THEN [ocr |-> o, promise |-> 0]
  ELSE [ ocr |-> [o EXCEPT !.promises = Append(@, NewPromise),
                           !.ocrWorkerPromise = Len(o.promises) + 1],
         promise |-> Len(o.promises) + 1 ]

\* async function ensureOCRWorker(): the adapter after the call and the
\* promise returned (0: null)
ensureOCRWorker(o) ==
  IF ~o.tesseract THEN [ocr |-> o, promise |-> 0]
  ELSE IF o.ocrWorkerPromise = 0
    THEN [ ocr |-> [o EXCEPT !.promises = Append(@, NewPromise),
                             !.ocrWorkerPromise = Len(o.promises) + 1],
           promise |-> Len(o.promises) + 1 ]
  ELSE [ocr |-> o, promise |-> o.ocrWorkerPromise]

\* how the initialisation of a worker can end: the worker is ready,
\* Tesseract.createWorker rejects, or load / loadLanguage / initialize rejects
\* on the worker that was created
InitOutcomes == { "ready", "createWorkerRejects", "loadRejects" }
\* and worker.recognize: a text, no text, or a rejection
RecognizeOutcomes == { "text", "noText", "rejects" }

OcrInit ==
  /\ currentGradingContext = [open |-> FALSE, submission |-> NoSubmission]
  /\ aiConfig = NoConfig
  /\ pc = "idle"
  /\ submission = NoSubmission
  /\ visionBudget = createVisionBudget(NoConfig)
  /\ fileSections = << >>
  /\ fileIndex = 0
  /\ decoder = NoDecoder
  /\ image = NoImage
  /\ content = NoContent
  /\ log = << >>
  /\ requests = 0
  /\ \E available \in BOOLEAN : ocr = [NoOcr EXCEPT !.tesseract = available]
  /\ extractions = NoExtractions

\* recognizeImageTextFromData up to await ensureOCRWorker()
recognizeImageTextFromData ==
  /\ ocr.microtasks = << >>
  /\ ocr.calls < MaxRecognizeCalls
  /\ \E c \in 1..MaxCallers :
       /\ ocr.callers[c].pc = "idle"
       /\ LET ensured == ensureOCRWorker(ocr)
              p == ensured.promise
              o == ensured.ocr
              settled == p = 0 \/ o.promises[p].state # "pending"
          IN ocr' =
               [o EXCEPT
                  !.calls = @ + 1,
                  !.callers[c] = [pc |-> "ensure", promise |-> p, result |-> "none",
                                  caught |-> FALSE],
                  !.microtasks = IF settled THEN Append(@, c) ELSE @,
                  !.promises = IF settled THEN @
                               ELSE [@ EXCEPT ![p].waiters = Append(@, c)]]
  /\ UNCHANGED << extractionVars, extractions >>

\* the async arrow of ensureOCRWorker returns: the promise settles with the
\* worker or with null, and the awaits on it are resumed in order
WorkerInitialised ==
  /\ ocr.microtasks = << >>
  /\ \E p \in DOMAIN ocr.promises, outcome \in InitOutcomes :
       /\ ocr.promises[p].state = "pending"
       /\ ocr' = [ocr EXCEPT
                    !.promises[p] =
                       [state |-> IF outcome = "ready" THEN "worker" ELSE "null",
                        created |-> outcome # "createWorkerRejects",
                        waiters |-> << >>],
                    !.microtasks = ocr.promises[p].waiters]
  /\ UNCHANGED << extractionVars, extractions >>

\* recognizeImageTextFromData after await ensureOCRWorker(): without a worker,
\* ocrWorkerPromise = null and the empty result; with one, worker.recognize
AfterEnsureOCRWorker ==
  /\ ocr.microtasks # << >>
  /\ LET c == Head(ocr.microtasks)
         p == ocr.callers[c].promise
         worker == p # 0 /\ ocr.promises[p].state = "worker"
     IN ocr' =
          IF worker
            THEN [ocr EXCEPT !.microtasks = Tail(@), !.callers[c].pc = "recognize"]
            ELSE [ocr EXCEPT !.microtasks = Tail(@),
                             !.ocrWorkerPromise = 0,
                             !.callers[c] = [pc |-> "idle", promise |-> p, result |-> "empty",
                                             caught |-> FALSE]]
  /\ UNCHANGED << extractionVars, extractions >>

\* mutant of WorkerRecognised: no catch around worker.recognize
WorkerRecognised_Propagates ==
  /\ ocr.microtasks = << >>
  /\ \E c \in 1..MaxCallers, outcome \in RecognizeOutcomes :
       /\ ocr.callers[c].pc = "recognize"
       /\ ocr' = [ocr EXCEPT
                    !.callers[c].pc = "idle",
                    !.callers[c].result = IF outcome = "text" THEN "text"
                                          ELSE IF outcome = "noText" THEN "empty"
                                          ELSE "threw"]
  /\ UNCHANGED << extractionVars, extractions >>

\* worker.recognize settles: the text, or the empty result of the catch
WorkerRecognised ==
  /\ ocr.microtasks = << >>
  /\ \E c \in 1..MaxCallers, outcome \in RecognizeOutcomes :
       /\ ocr.callers[c].pc = "recognize"
       /\ ocr' = [ocr EXCEPT
                    !.callers[c].pc = "idle",
                    !.callers[c].caught = outcome = "rejects",
                    !.callers[c].result = IF outcome = "text" THEN "text" ELSE "empty"]
  /\ UNCHANGED << extractionVars, extractions >>

OcrNext ==
  \/ recognizeImageTextFromData
  \/ WorkerInitialised
  \/ AfterEnsureOCRWorker
  \/ WorkerRecognised

OcrSpec == OcrInit /\ [][OcrNext]_vars

\* ------------------------------------------------- extractions side by side
\* generateAIFeedback started more than once before the button is disabled
\* (it is disabled after await getAIConfig()): each call of
\* extractSubmissionContent runs over image attachments, one
\* processImageForAI call per attachment, its steps interleaved with those of
\* the other calls at every await.

\* mutant of allocateVisionBudget: one budget for the process
allocateVisionBudget_Singleton(objects, config) ==
  IF objects = << >>
    THEN [objects |-> << createVisionBudget(config) >>, visionBudget |-> 1]
    ELSE [objects |-> objects, visionBudget |-> 1]

\* const visionBudget = createVisionBudget(aiConfig): a new object
allocateVisionBudget(objects, config) ==
  [ objects |-> Append(objects, createVisionBudget(config)),
    visionBudget |-> Len(objects) + 1 ]

\* the configurations generateAIFeedback lets through
ValidAIConfigs ==
  { config \in AIConfigs : config.platform # "" /\ config.apiKey /\ config.textModel # "" }

ConcurrentInit ==
  /\ currentGradingContext = [open |-> FALSE, submission |-> NoSubmission]
  /\ aiConfig = NoConfig
  /\ pc = "idle"
  /\ submission = NoSubmission
  /\ visionBudget = createVisionBudget(NoConfig)
  /\ fileSections = << >>
  /\ fileIndex = 0
  /\ decoder = NoDecoder
  /\ image = NoImage
  /\ content = NoContent
  /\ log = << >>
  /\ requests = 0
  /\ ocr = NoOcr
  /\ extractions = NoExtractions

\* extractSubmissionContent(aiConfig) of call k up to its first await
ExtractStep(ex, k, config) ==
  LET allocated == allocateVisionBudget(ex.objects, config)
  IN [ex EXCEPT
        !.objects = allocated.objects,
        !.frames[k] = [NoFrame EXCEPT !.pc = "processImage",
                                      !.aiConfig = config,
                                      !.visionBudget = allocated.visionBudget,
                                      !.fileIndex = 1]]

\* the end of the loop body of a call and the next iteration or the return
ConcurrentNextFile(frame) ==
  IF frame.fileIndex < MaxImageFiles
    THEN [frame EXCEPT !.fileIndex = @ + 1, !.pc = "processImage"]
    ELSE [frame EXCEPT !.pc = "returned"]

\* sourceLabel of the image attachment a call is at: its file name
ConcurrentLabel(frame) == Label("file", frame.fileIndex, << "fig", "PNG" >>)

\* const detection = await analyzeForVision(...) of an image attachment
ConcurrentDecision(in) ==
  shouldTriggerVision(cleanTextLength(Trim(in.ocrText)), in.metrics, FALSE)

\* processImageForAI of call k on its current attachment, to the vision
\* request or to its return
ProcessImageStep(ex, k, in) ==
  LET frame == ex.frames[k]
      budget == ex.objects[frame.visionBudget]
      attempt == attemptsVision(budget, frame.aiConfig, ConcurrentDecision(in), FALSE)
  IN IF attempt
       THEN [ex EXCEPT !.objects[frame.visionBudget].used = @ + 1,
                       !.frames[k].pc = "vision",
                       !.frames[k].attempts = @ + 1]
       ELSE [ex EXCEPT !.frames[k] = ConcurrentNextFile(frame)]

\* describeImageWithVision of call k settles, and the rest of processImageForAI
VisionSettledStep(ex, k, outcome) ==
  LET frame == ex.frames[k]
      budget == ex.objects[frame.visionBudget]
      successful == outcome = "summary"
  IN [ex EXCEPT
        !.objects[frame.visionBudget] =
           recordSource(budget, ConcurrentLabel(frame), successful),
        !.frames[k] =
           ConcurrentNextFile(
             [frame EXCEPT !.described =
                IF successful THEN Append(@, ConcurrentLabel(frame)) ELSE @])]

ConcurrentExtract(k) ==
  /\ extractions.frames[k].pc = "idle"
  /\ \E config \in ValidAIConfigs : extractions' = ExtractStep(extractions, k, config)
  /\ UNCHANGED << extractionVars, ocr >>

ConcurrentProcessImage(k) ==
  /\ extractions.frames[k].pc = "processImage"
  /\ \E in \in ImageInputs : extractions' = ProcessImageStep(extractions, k, in)
  /\ UNCHANGED << extractionVars, ocr >>

ConcurrentVisionSettled(k) ==
  /\ extractions.frames[k].pc = "vision"
  /\ \E outcome \in VisionOutcomes :
       extractions' = VisionSettledStep(extractions, k, outcome)
  /\ UNCHANGED << extractionVars, ocr >>

ConcurrentNext ==
  \E k \in 1..MaxExtractions :
    \/ ConcurrentExtract(k)
    \/ ConcurrentProcessImage(k)
    \/ ConcurrentVisionSettled(k)

ConcurrentSpec == ConcurrentInit /\ [][ConcurrentNext]_vars

\* ------------------------------------------------------- the same run twice
\* two runs of extractSubmissionContent, one after the other, over the same
\* image attachments, with the same configuration, and with the collaborators
\* (OCR, image analysis, vision service) answering the second run as they
\* answered the first: the answers are fixed at the start, per attachment.
ReplayRuns == { 1, 2 }

Responses ==
  [ aiConfig : ValidAIConfigs,
    files : [1..MaxImageFiles -> [in : ImageInputs, outcome : VisionOutcomes]] ]

ReplayInit ==
  /\ currentGradingContext = [open |-> FALSE, submission |-> NoSubmission]
  /\ aiConfig = NoConfig
  /\ pc = "idle"
  /\ submission = NoSubmission
  /\ visionBudget = createVisionBudget(NoConfig)
  /\ fileSections = << >>
  /\ fileIndex = 0
  /\ decoder = NoDecoder
  /\ image = NoImage
  /\ content = NoContent
  /\ log = << >>
  /\ requests = 0
  /\ ocr = NoOcr
  /\ \E responses \in Responses :
       extractions = [NoExtractions EXCEPT !.responses = << responses >>]

\* the answers of the collaborators for the attachment run k is at
Answer(k) == extractions.responses[1].files[extractions.frames[k].fileIndex]

\* the run returns: the file sections and the vision summary
ReplayReturn(ex, k) ==
  IF ex.frames[k].pc = "returned"
    THEN [ex EXCEPT !.outputs[k].content =
            Assemble("SUBMITTED FILES", << >>, ex.outputs[k].sections,
                     ex.objects[ex.frames[k].visionBudget], ex.frames[k].aiConfig)]
    ELSE ex

ReplayExtract(k) ==
  /\ extractions.frames[k].pc = "idle"
  /\ \A j \in ReplayRuns : j < k => extractions.frames[j].pc = "returned"
  /\ extractions' = ExtractStep(extractions, k, extractions.responses[1].aiConfig)
  /\ UNCHANGED << extractionVars, ocr >>

ReplayProcessImage(k) ==
  /\ extractions.frames[k].pc = "processImage"
  /\ LET frame == extractions.frames[k]
         budget == extractions.objects[frame.visionBudget]
         in == Answer(k).in
         should == ConcurrentDecision(in)
         ex == ProcessImageStep(extractions, k, in)
         analysis == [ label |-> ConcurrentLabel(frame),
                       vision |-> skippedVision(budget, should, FALSE),
                       ocr |-> ocrSection(Trim(in.ocrText), FALSE),
                       structure |-> structureSection(in.metrics, should, FALSE) ]
     IN extractions' =
          IF ex.frames[k].pc = "vision"
            THEN [ex EXCEPT !.outputs[k].requests = Append(@, ConcurrentLabel(frame))]
            ELSE ReplayReturn([ex EXCEPT !.outputs[k].sections = Append(@, analysis)], k)
  /\ UNCHANGED << extractionVars, ocr >>

ReplayVisionSettled(k) ==
  /\ extractions.frames[k].pc = "vision"
  /\ LET frame == extractions.frames[k]
         in == Answer(k).in
         outcome == IF in.payload THEN Answer(k).outcome ELSE "error"
         ex == VisionSettledStep(extractions, k, outcome)
         analysis == [ label |-> ConcurrentLabel(frame),
                       vision |-> IF outcome = "summary" THEN "summary"
                                  ELSE IF outcome = "empty" THEN "(No description returned)"
                                  ELSE "(Failed to analyse visual content)",
                       ocr |-> ocrSection(Trim(in.ocrText), outcome = "summary"),
                       structure |-> structureSection(in.metrics, ConcurrentDecision(in), FALSE) ]
     IN extractions' = ReplayReturn([ex EXCEPT !.outputs[k].sections = Append(@, analysis)], k)
  /\ UNCHANGED << extractionVars, ocr >>

ReplayNext ==
  \E k \in ReplayRuns :
    \/ ReplayExtract(k)
    \/ ReplayProcessImage(k)
    \/ ReplayVisionSettled(k)

ReplaySpec == ReplayInit /\ [][ReplayNext]_vars

\* ------------------------------------------------------------------ claims
LimitPlaceholder == "(Skipped - vision analysis limit reached for this submission)"

\* the images processed before the i-th whose decision was 'use vision'
QualifyingBefore(i) == Cardinality({ j \in 1..(i - 1) : log[j].decision })
Qualifying == Cardinality({ j \in DOMAIN log : log[j].decision })
Attempted == { j \in DOMAIN log : log[j].attempted }
\* the last image processed is the one whose analysis the image record holds
LastReturned == image.stage = "returned" /\ log # << >>

\* C1: in every state of an extraction the budget satisfies 0 <= used <= max,
\* with max = 3, whatever the images and the outcomes of the vision requests.
C1_BudgetWithinBounds ==
  /\ visionBudget.max = 3
  /\ 0 <= visionBudget.used
  /\ visionBudget.used <= visionBudget.max

\* C1 witness: the budget is exhausted and a further image that asked for
\* vision has been processed.
C1_Witness ==
  /\ visionBudget.used = visionBudget.max
  /\ LastReturned
  /\ image.shouldUseVision
  /\ image.usedBefore = visionBudget.max

\* C2: with the budget enabled, an image gets a vision request exactly when its
\* decision is 'use vision' and fewer than max images before it, in processing
\* order, had that decision; a later image with that decision gets the 'limit
\* reached' placeholder.
C2_FirstMaxQualifyingGetVision ==
  visionBudget.enabled =>
    /\ \A i \in DOMAIN log :
         log[i].attempted <=> (log[i].decision /\ QualifyingBefore(i) < visionBudget.max)
    /\ (LastReturned /\ log[Len(log)].decision /\ ~log[Len(log)].attempted)
         => image.vision = LimitPlaceholder

\* C2 witness: four images asked for vision, with an image that did not among
\* them; the fourth got the placeholder and no request.
C2_Witness ==
  /\ visionBudget.enabled
  /\ LastReturned
  /\ Qualifying = 4
  /\ log[Len(log)].decision
  /\ \E i \in DOMAIN log : ~log[i].decision /\ QualifyingBefore(i) > 0
  /\ ~image.visionAttempted
  /\ image.vision = LimitPlaceholder

DescribedLabels == { log[i].label : i \in { j \in DOMAIN log : log[j].successful } }

ReferenceDecision(textLength, metrics, forceVision) ==
  \/ forceVision
  \/ /\ textLength < 220
     /\ \/ textLength <= 40
        \/ /\ metrics.present
           /\ (metrics.edgeDensity >= 12 \/ metrics.colorDiversity >= 45)

\* C4: shouldTriggerVision returns what the five rules, taken in order, give,
\* for every text length, metrics (or none) and forceVision flag.
C4_DecisionEqualsReference ==
  image.stage = "decided" =>
    (image.shouldUseVision
       <=> ReferenceDecision(image.textLength, image.metrics, image.forceVision))

\* C4 witness: a decision on a text of exactly 220 characters with an edge
\* density over the threshold, not forced: the text-heavy cutoff wins.
C4_Witness ==
  /\ image.stage = "decided"
  /\ ~image.forceVision
  /\ image.textLength = 220
  /\ image.metrics.present
  /\ image.metrics.edgeDensity >= 12
  /\ ~image.shouldUseVision

\* C5 as stated: the section of a text attachment whose fetched text is longer
\* than 10,000 characters is the first 10,000 characters of the file followed
\* by the truncation marker.
C5_FirstTenThousandAndMarker ==
  \A i \in DOMAIN fileSections :
    TextLength(fileSections[i].fetchedText) > 10000 =>
      fileSections[i].body = Slice(fileSections[i].fetchedText, 10000) \o FetchMarker

\* C6 as stated: extractSubmissionContent never throws or rejects.
C6_NeverThrows == pc # "threw"

\* C7 as stated: the section of an attachment whose decoder failed shows
\* '(Content could not be processed)' as its Extracted Content.
C7_DecodeFailurePlaceholder ==
  \A i \in DOMAIN fileSections :
    fileSections[i].failure = "decode" =>
      fileSections[i].extracted = "(Content could not be processed)"

\* C8: the output of a file-upload submission with n attachments has exactly n
\* file sections, in the order of the attachments, whichever of them failed to
\* fetch or decode; while the loop runs, every attachment before the current
\* one has its section.
C8_OneSectionPerAttachment ==
  LET files == submission.attachments
      InOrder(sections) ==
        \A i \in DOMAIN sections :
          sections[i].file = i /\ sections[i].filename = files[i].filename
  IN /\ pc \in { "attachment", "pdfPage", "docxImage", "processImage", "vision" }
          => /\ fileIndex \in 1..Len(files)
             /\ Len(fileSections) = fileIndex - 1
             /\ InOrder(fileSections)
     /\ (pc = "returned" /\ submission.submission_type = "online_upload" /\ Len(files) > 0)
          => /\ content.kind = "SUBMITTED FILES"
             /\ Len(content.sections) = Len(files)
             /\ InOrder(content.sections)

\* C8 witness: two attachments, the first failed to fetch or decode, the
\* second has its content in the output.
C8_Witness ==
  /\ pc = "returned"
  /\ Len(submission.attachments) = 2
  /\ Len(content.sections) = 2
  /\ content.sections[1].failure \in { "fetch", "decode" }
  /\ content.sections[2].extracted = "content"

\* the current processImageForAI call is past its budget check
PastBudgetCheck == image.stage \in { "requesting", "returned" }

\* C9: processImageForAI called with forceVision, budget enabled and used < max,
\* attempts a vision request and charges it (used goes up by one), whatever
\* the OCR text length and the metrics.
C9_ForceVisionAttempts ==
  ( /\ PastBudgetCheck
    /\ image.forceVision
    /\ visionBudget.enabled
    /\ image.usedBefore < visionBudget.max )
    => /\ image.visionAttempted
       /\ visionBudget.used = image.usedBefore + 1

\* C9 witness: a forced call on a page whose OCR text is text-heavy, with two
\* uses already charged, got its request.
C9_Witness ==
  /\ PastBudgetCheck
  /\ image.forceVision
  /\ visionBudget.enabled
  /\ image.usedBefore = visionBudget.max - 1
  /\ image.textLength >= OCR_TEXT_HEAVY_THRESHOLD
  /\ image.metrics.present
  /\ image.visionAttempted

\* C10 as stated: an image whose OCR text has 220 characters or more,
\* processed without forceVision, gets no vision request and leaves used as
\* it was.
C10_HeavyOcrTextNoVision ==
  (PastBudgetCheck /\ ~image.forceVision /\ image.rawTextLength >= 220)
    => /\ ~image.visionAttempted
       /\ visionBudget.used = image.usedBefore

\* C10 amended: an image whose OCR text, once its whitespace runs are
\* collapsed to one space and it is trimmed, has 220 characters or more,
\* processed without forceVision, gets no vision request and leaves used as
\* it was, whatever the metrics and the budget.
C10_HeavyCleanTextNoVision ==
  (PastBudgetCheck /\ ~image.forceVision /\ image.textLength >= 220)
    => /\ ~image.visionAttempted
       /\ ~image.shouldUseVision
       /\ visionBudget.used = image.usedBefore

\* C10 witness: such an image, edge density at the threshold, budget enabled
\* and not exhausted, was processed without a request.
C10_Witness ==
  /\ image.stage = "returned"
  /\ ~image.forceVision
  /\ image.textLength >= 220
  /\ image.metrics.edgeDensity >= EDGE_DENSITY_VISION_THRESHOLD
  /\ visionBudget.enabled
  /\ visionBudget.used < visionBudget.max
  /\ ~image.visionAttempted

\* the processImageForAI calls made for the pages of the PDF that is attachment f
PdfPagesOf(f) ==
  { i \in DOMAIN log : log[i].file = f /\ log[i].label.kind = "PDF Page" }

\* C11 as stated: while a PDF whose processed pages each have a text layer of
\* 220 characters or more is processed, no vision call is issued.
C11_TextLayerPagesNoVision ==
  \A f \in DOMAIN submission.attachments :
    (\A i \in PdfPagesOf(f) : log[i].pageTextLength >= 220)
      => (\A i \in PdfPagesOf(f) : ~log[i].attempted)

\* the file sections written so far that hold the content of a PDF
PdfSections ==
  { i \in DOMAIN fileSections :
      /\ getFileExtension(fileSections[i].filename) = "pdf"
      /\ fileSections[i].extracted = "content" }

\* C12: of a PDF with N pages, the pages handed to processImageForAI are pages
\* 1, 2, ... in ascending order and never more than min(N, 5); the content of
\* a PDF that was decoded to its end holds the analyses of pages 1..min(N, 5)
\* in that order, and one note '5 pages out of N', as its last section, if and
\* only if N > 5.
C12_FirstFivePagesAndNote ==
  /\ \A f \in DOMAIN submission.attachments :
       /\ Cardinality(PdfPagesOf(f)) <= Min(submission.attachments[f].items, 5)
       /\ \A i \in PdfPagesOf(f) :
            log[i].label.n = Cardinality({ j \in PdfPagesOf(f) : j <= i })
  /\ \A f \in PdfSections :
       LET N == submission.attachments[f].items
           sections == fileSections[f].sections
           IsAnalysis(t) == t.t = "analysis"
           IsNote(t) == t.t = "Note: OCR limited"
           analyses == SelectSeq(sections, IsAnalysis)
           notes == SelectSeq(sections, IsNote)
       IN /\ Len(analyses) = Min(N, 5)
          /\ \A p \in DOMAIN analyses : analyses[p].label = Label("PDF Page", p, << >>)
          /\ Len(notes) = IF N > 5 THEN 1 ELSE 0
          /\ N > 5 => /\ IsNote(sections[Len(sections)])
                      /\ sections[Len(sections)].label.n = 5
                      /\ sections[Len(sections)].outOf = N

\* C12 witness: a PDF of more than 5 pages was decoded to its end.
C12_Witness ==
  \E f \in PdfSections :
    /\ submission.attachments[f].items > 5
    /\ Cardinality(PdfPagesOf(f)) = 5

\* the processImageForAI calls made for the embedded images of the DOCX that
\* is attachment f
DocxImagesOf(f) ==
  { i \in DOMAIN log : log[i].file = f /\ log[i].label.kind = "DOCX Embedded Image" }

DocxSections ==
  { i \in DOMAIN fileSections :
      /\ getFileExtension(fileSections[i].filename) = "docx"
      /\ fileSections[i].extracted = "content" }

\* C13: of a DOCX with k embedded images, only the first min(k, 5), in callback
\* order, reach processImageForAI (OCR, decision, vision); the content of the
\* DOCX holds their analyses, in that order, after the text, and nothing else:
\* no section and no note for an image after the fifth.
C13_FirstFiveDocxImages ==
  /\ \A f \in DOMAIN submission.attachments :
       /\ Cardinality(DocxImagesOf(f)) <= Min(submission.attachments[f].items, 5)
       /\ \A i \in DocxImagesOf(f) :
            log[i].label.n = Cardinality({ j \in DocxImagesOf(f) : j <= i })
  /\ \A f \in DocxSections :
       LET k == submission.attachments[f].items
           sections == fileSections[f].sections
           IsAnalysis(t) == t.t = "analysis"
           analyses == SelectSeq(sections, IsAnalysis)
       IN /\ Len(analyses) = Min(k, 5)
          /\ Cardinality(DocxImagesOf(f)) = Min(k, 5)
          /\ \A p \in DOMAIN analyses :
               analyses[p].label = Label("DOCX Embedded Image", p, << >>)
          /\ \A p \in DOMAIN sections :
               \/ IsAnalysis(sections[p])
               \/ p = 1 /\ sections[p].t = "DOCX Text:"

\* C13 witness: a DOCX with more than 5 embedded images was converted.
C13_Witness ==
  \E f \in DocxSections :
    /\ submission.attachments[f].items > 5
    /\ Cardinality(DocxImagesOf(f)) = 5

UnsupportedPlaceholder == "(Skipped - current model does not support vision input)"
\* the Vision Summary sections a request can end in
RequestOutcomes ==
  { "summary", "(No description returned)", "(Failed to analyse visual content)" }

\* C14: the analysis of an image whose decision is 'use vision' (or that is
\* forced) holds exactly one Vision Summary section: the 'does not support
\* vision input' placeholder if the budget is not enabled, the 'limit reached'
\* placeholder if it is enabled with used >= max, and otherwise the outcome of
\* a request that was issued.
C14_OneVisionOutcome ==
  (PastBudgetCheck /\ (image.shouldUseVision \/ image.forceVision)) =>
    /\ ~visionBudget.enabled =>
         ~image.visionAttempted /\ image.vision = UnsupportedPlaceholder
    /\ (visionBudget.enabled /\ image.usedBefore >= visionBudget.max) =>
         ~image.visionAttempted /\ image.vision = LimitPlaceholder
    /\ (visionBudget.enabled /\ image.usedBefore < visionBudget.max) =>
         /\ image.visionAttempted
         /\ image.stage = "requesting" => image.vision = "pending"
         /\ image.stage = "returned" => image.vision \in RequestOutcomes
    /\ image.vision # "none"

\* C14 witness: a forced page processed under a model without vision input.
C14_Witness ==
  /\ image.stage = "returned"
  /\ image.forceVision
  /\ ~visionBudget.enabled
  /\ image.vision = UnsupportedPlaceholder

FailedPlaceholder == "(Failed to analyse visual content)"

\* C15: a vision request that fails is not propagated out of processImageForAI:
\* the step that ends the request gives the analysis the '(Failed to analyse
\* visual content)' placeholder and an OCR Text section, hands the analysis to
\* the decoder, and the extraction goes on with the next page, image or
\* attachment (or returns after the last one).
C15_FailedRequestContained ==
  [][ (pc = "vision" /\ image'.vision = FailedPlaceholder) =>
        /\ image'.stage = "returned"
        /\ image'.ocr \in { "text", "(No text detected)" }
        /\ visionBudget'.used = visionBudget.used
        /\ pc' \in { "pdfPage", "docxImage", "attachment", "returned" }
        /\ pc' \in { "pdfPage", "docxImage" } =>
             /\ decoder'.sections = Append(decoder.sections, Tag("analysis", image.label))
             /\ pc' = "pdfPage" => decoder'.pageNumber = decoder.pageNumber + 1
        /\ pc' \in { "attachment", "returned" } =>
             /\ fileSections' # << >>
             /\ Len(fileSections') = Len(fileSections) + 1
             /\ fileSections'[Len(fileSections')].extracted = "content"
             /\ \E p \in DOMAIN fileSections'[Len(fileSections')].sections :
                  fileSections'[Len(fileSections')].sections[p] = Tag("analysis", image.label)
        /\ pc' = "attachment" => fileIndex' = fileIndex + 1
        /\ pc' = "returned" => fileIndex = Len(submission.attachments)
    ]_vars

\* C15 witness: the request for a page of a PDF failed, the page has its OCR
\* text, and the next page is up.
C15_Witness ==
  /\ pc = "pdfPage"
  /\ image.stage = "returned"
  /\ image.vision = FailedPlaceholder
  /\ image.ocr = "text"
  /\ decoder.pageNumber = image.label.n + 1

FailedInits == { p \in DOMAIN ocr.promises : ocr.promises[p].state = "null" }
PendingInits == { p \in DOMAIN ocr.promises : ocr.promises[p].state = "pending" }

\* C16 as stated: once a worker initialisation has failed, the failure is
\* cached: no worker initialisation is started after it and every later
\* recognize call returns the empty result.
C16_FailureCached ==
  /\ \A p \in FailedInits : p = Len(ocr.promises)
  /\ FailedInits # { } =>
       \A c \in DOMAIN ocr.callers :
         ocr.callers[c].pc # "recognize" /\ ocr.callers[c].result # "text"

\* C17: at most one worker initialisation is in flight at any time, it is the
\* one ocrWorkerPromise holds, and every caller waiting for an initialisation
\* in flight waits on that same promise.
C17_SingleFlight ==
  /\ Cardinality(PendingInits) <= 1
  /\ \A p \in PendingInits : ocr.ocrWorkerPromise = p
  /\ \A c \in DOMAIN ocr.callers :
       (ocr.callers[c].pc = "ensure" /\ ocr.callers[c].promise \in PendingInits)
         => ocr.callers[c].promise = ocr.ocrWorkerPromise

\* C17 witness: after a failed initialisation, two callers wait on the one
\* initialisation in flight.
C17_Witness ==
  /\ FailedInits # { }
  /\ \E p \in PendingInits :
       /\ Len(ocr.promises[p].waiters) = 2
       /\ \A c \in DOMAIN ocr.callers :
            ocr.callers[c].pc = "ensure" /\ ocr.callers[c].promise = p

Started == { k \in DOMAIN extractions.frames : extractions.frames[k].pc # "idle" }

\* C18: each extractSubmissionContent call has a vision budget of its own,
\* created with the call and used for all its attachments: at any time the
\* budget of a call holds the requests charged by that call on all its
\* attachments so far and the labels that call recorded, whatever the calls
\* running beside it did.
C18_BudgetPerExtraction ==
  /\ \A j, k \in Started :
       j # k => extractions.frames[j].visionBudget # extractions.frames[k].visionBudget
  /\ \A k \in Started :
       LET frame == extractions.frames[k]
           budget == extractions.objects[frame.visionBudget]
       IN /\ budget.used = frame.attempts
          /\ budget.sources = frame.described

\* C18 witness: two calls side by side, the first with requests charged on
\* two attachments, the second with one.
C18_Witness ==
  /\ Started = { 1, 2 }
  /\ extractions.frames[1].attempts = 2
  /\ Len(extractions.frames[1].described) = 2
  /\ extractions.frames[2].attempts = 1
  /\ extractions.frames[2].pc = "vision"

BothReturned == \A k \in ReplayRuns : extractions.frames[k].pc = "returned"

C20_SummaryIffUsed ==
  (pc = "returned" /\ content # NoContent) =>
    /\ content.summary <=> visionBudget.used >= 1
    /\ content.summary <=> Attempted # { }
    /\ content.summary =>
         /\ content.summaryModel = aiConfig.textModel
         /\ content.summaryUsed = visionBudget.used
         /\ content.summaryUsed = Cardinality(Attempted)
         /\ { content.summarySources[i] : i \in DOMAIN content.summarySources } = DescribedLabels
         /\ \A i, j \in DOMAIN content.summarySources :
              content.summarySources[i] = content.summarySources[j] => i = j

\* C20 witness: a summary over three requests, one of them without a
\* description, the two others under one label.
C20_Witness ==
  /\ pc = "returned"
  /\ content.summary
  /\ content.summaryUsed = 3
  /\ Len(visionBudget.sources) = 2
  /\ Len(content.summarySources) = 1

\* C21: an image analysis that returned holds the OCR Text section with the
\* text whenever the OCR text is not empty, whatever became of the vision
\* pass; with empty OCR text it holds the '(No text detected)' placeholder
\* exactly when no vision summary was obtained, and no OCR section otherwise.
C21_OcrSectionAndPlaceholder ==
  image.stage = "returned" =>
    /\ image.rawTextLength > 0 => image.ocr = "text"
    /\ image.rawTextLength = 0 =>
         /\ image.ocr = "(No text detected)" <=> image.vision # "summary"
         /\ image.vision = "summary" => image.ocr = "absent"
    /\ image.visionSuccessful <=> image.vision = "summary"

\* C21 witness: a vision summary for an image without OCR text, no placeholder.
C21_Witness ==
  /\ image.stage = "returned"
  /\ image.rawTextLength = 0
  /\ image.visionAttempted
  /\ image.vision = "summary"
  /\ image.ocr = "absent"

\* 'TEXT SUBMISSION:\n'.length
TextSubmissionHeaderLength == 17

\* C22 as stated: the returned string is no longer than a fixed limit of a few
\* tens of KB (at most 99 KB here), whatever the size of the submission body.
C22_OutputBounded ==
  (pc = "returned" /\ content.kind = "TEXT SUBMISSION:") =>
    TextSubmissionHeaderLength + TextLength(content.body) <= 99 * 1024

\* C23: for a text-entry submission with a non-empty body the returned content
\* is the 'TEXT SUBMISSION:' header followed by the body as it is; no file is
\* fetched, no image processed, no vision request sent, used stays 0 and no
\* vision summary is appended.
C23_TextEntryIsLiteralBody ==
  (pc = "returned" /\ submission.submission_type = "online_text_entry"
     /\ submission.body # << >>) =>
    /\ content.kind = "TEXT SUBMISSION:"
    /\ content.body = submission.body
    /\ content.sections = << >>
    /\ ~content.summary
    /\ visionBudget.used = 0
    /\ visionBudget.sources = << >>
    /\ fileSections = << >>
    /\ decoder = NoDecoder

\* C23 witness: the body 'Hello' returned under a configuration with vision.
C23_Witness ==
  /\ pc = "returned"
  /\ submission.submission_type = "online_text_entry"
  /\ submission.body = Chars(5)
  /\ content.body = Chars(5)
  /\ TextSubmissionHeaderLength + TextLength(content.body) = 22
  /\ visionBudget.enabled

\* the calls of recognizeImageTextFromData that returned
ReturnedCallers ==
  { c \in DOMAIN ocr.callers : ocr.callers[c].pc = "idle" /\ ocr.callers[c].result # "none" }

\* C24: a call of recognizeImageTextFromData returns a text or the empty
\* result and never throws: the empty result without the OCR engine, after a
\* failed worker initialisation and after a rejected worker.recognize.
C24_EmptyResultNotThrown ==
  \A c \in DOMAIN ocr.callers :
    /\ ocr.callers[c].result \in { "none", "text", "empty" }
    /\ c \in ReturnedCallers =>
         /\ ~ocr.tesseract => ocr.callers[c].result = "empty"
         /\ ocr.callers[c].promise \in FailedInits => ocr.callers[c].result = "empty"
         /\ ocr.callers[c].caught => ocr.callers[c].result = "empty"

\* C24 witness: one call returned the empty result after a failed
\* initialisation, the other after worker.recognize rejected.
C24_Witness ==
  \E c, d \in ReturnedCallers :
    /\ ocr.callers[c].promise \in FailedInits
    /\ ocr.callers[c].result = "empty"
    /\ ocr.callers[d].caught
    /\ ocr.callers[d].result = "empty"

\* the image in hand is a rendered PDF page without text layer
TextFreePage == image.label.kind = "PDF Page" /\ image.pageTextLength = 0

\* forceVision is passed exactly for the PDF pages whose normalized text
\* layer is empty, never for an image attachment or a DOCX image
ForcedExactlyTextFreePages ==
  image.stage # "none" => (image.forceVision <=> TextFreePage)

\* C25 as stated: forceVision is passed exactly for the pages without text
\* layer, and every processed page without text layer gets a vision attempt.
C25_TextFreePagesGetVision ==
  /\ ForcedExactlyTextFreePages
  /\ (PastBudgetCheck /\ TextFreePage) => image.visionAttempted

\* C25 amended: forceVision is passed exactly for the pages without text
\* layer; for such a page the decision is 'use vision' whatever the OCR text
\* and the metrics, and the request is attempted exactly when vision can be
\* used and the budget is not exhausted; otherwise the page gets the
\* placeholder of the skipped pass.
C25_TextFreePagesForced ==
  /\ ForcedExactlyTextFreePages
  /\ (PastBudgetCheck /\ TextFreePage) =>
       /\ image.shouldUseVision
       /\ image.visionAttempted <=>
            (canUseVision(visionBudget, aiConfig) /\ image.usedBefore < visionBudget.max)
       /\ (~image.visionAttempted /\ visionBudget.enabled /\ image.stage = "returned")
            => image.vision = LimitPlaceholder
       /\ (~visionBudget.enabled /\ image.stage = "returned")
            => image.vision = UnsupportedPlaceholder

\* C25 witness: a page without text layer, its OCR text text-heavy, is forced
\* and gets its request; before it a page with a text layer was not forced.
C25_Witness ==
  /\ PastBudgetCheck
  /\ TextFreePage
  /\ image.label.n = 2
  /\ image.forceVision
  /\ image.textLength >= OCR_TEXT_HEAVY_THRESHOLD
  /\ image.visionAttempted
  /\ log[Len(log) - 1].pageTextLength > 0
  /\ ~log[Len(log) - 1].attempted

\* the step ends the decoder of a PDF in its page loop: a page threw
PageThrew == pc = "pdfPage" /\ Len(fileSections') = Len(fileSections) + 1

\* C26: within an extraction no step lowers used; the step in which a vision
\* request settles leaves it as it is, whatever the outcome; and when a page
\* of a PDF throws, the attachment reports no content while used and sources
\* keep what the earlier pages charged and recorded.
C26_UsedNeverDecreases ==
  [][ pc # "getAIConfig" =>
        /\ visionBudget'.used >= visionBudget.used
        /\ pc = "vision" => visionBudget'.used = visionBudget.used
        /\ PageThrew =>
             /\ visionBudget' = visionBudget
             /\ fileSections'[Len(fileSections')].extracted = "(No extractable content detected)"
             /\ fileSections'[Len(fileSections')].sections = << >> ]_vars

\* C26 witness: a PDF whose first page got a vision summary and whose second
\* page threw: no content for the attachment, the use and the source are kept.
C26_Witness ==
  /\ pc = "returned"
  /\ Len(fileSections) = 1
  /\ fileSections[1].failure = "decode"
  /\ fileSections[1].sections = << >>
  /\ Len(log) = 1
  /\ log[1].successful
  /\ visionBudget.used = 1
  /\ Len(visionBudget.sources) = 1
  /\ content.summary

\* extractSubmissionContent is suspended at an await
InExtraction == pc \in { "attachment", "pdfPage", "docxImage", "processImage", "vision" }

C28_UsedCountsStartedRequests ==
  /\ visionBudget.used = Cardinality(Attempted)
  /\ requests <= visionBudget.used
  /\ pc = "vision" =>
       /\ image.visionAttempted
       /\ image.vision = "pending"
       /\ log[Len(log)].attempted
       /\ visionBudget.used = image.usedBefore + 1

\* C28 witness: three requests charged, one with a description, the last one
\* returned nothing, and one of them failed before anything was sent.
C28_Witness ==
  /\ pc = "returned"
  /\ visionBudget.used = 3
  /\ Len(visionBudget.sources) = 1
  /\ image.vision = "(No description returned)"
  /\ requests = 2

\* the images whose analysis got a 'Vision Summary (model)' section, in order
RECURSIVE DescribedInOrder(_)
DescribedInOrder(entries) ==
  IF entries = << >> THEN << >>
  ELSE IF Head(entries).successful
    THEN << Head(entries).label >> \o DescribedInOrder(Tail(entries))
  ELSE DescribedInOrder(Tail(entries))

\* C29: sources holds one label per vision request that returned a non-empty
\* description, in order: its length is at most used and is the number of
\* 'Vision Summary (model)' sections produced so far; an extraction whose
\* requests all failed returns with used > 0, no source, and a summary that
\* names no source.
C29_SourcesOfSuccessfulRequests ==
  /\ Len(visionBudget.sources) <= visionBudget.used
  /\ visionBudget.sources = DescribedInOrder(log)
  /\ (image.stage = "returned" /\ image.visionAttempted) =>
       (image.vision = "summary" <=> log[Len(log)].successful)
  /\ (pc = "returned" /\ visionBudget.used > 0 /\ visionBudget.sources = << >>) =>
       /\ content.summary
       /\ content.summaryUsed = visionBudget.used
       /\ content.summarySources = << >>

\* C29 witness: two requests, one failed and one without description: the
\* extraction returned with used = 2 and no source.
C29_Witness ==
  /\ pc = "returned"
  /\ visionBudget.used = 2
  /\ visionBudget.sources = << >>
  /\ content.summary
  /\ content.summarySources = << >>
  /\ image.vision = FailedPlaceholder
  /\ requests = 2

\* the initialisations in which Tesseract.createWorker returned a worker
CreatedWorkers == { p \in DOMAIN ocr.promises : ocr.promises[p].created }

\* C30 as stated: at most one worker is ever created, and once a worker
\* exists no further initialisation (no further Tesseract.createWorker call)
\* is started.
C30_AtMostOneWorker ==
  /\ Cardinality(CreatedWorkers) <= 1
  /\ \A p \in CreatedWorkers : p = Len(ocr.promises)

====
